---- MODULE Spec2Model ----
(***************************************************************************)
(* A model of main.py: a Streamlit script that is re-run from the top on   *)
(* every user interaction.  st.session_state (history, generated, past,    *)
(* hf_api_key) survives the reruns; everything else (text, vector_store,   *)
(* chain) is a local of one run of main().  One run of main() is cut into  *)
(* its four phases: the credential gate, the per-file ingestion loop, the  *)
(* index/chain construction, and display_chat_history.                     *)
(***************************************************************************)
EXTENDS Integers, Sequences, FiniteSets, TLC

\* ------------------------------------------------------------------ bounds
MaxRuns == 6      \* script runs (the first page load included) explored per session
MaxFiles == 2     \* files held by the uploader at once

\* ------------------------------------------------------------ input domains
\* File names are sequences of characters, so that os.path.splitext is computed.
N_pdf == <<"a", ".", "p", "d", "f">>
N_docx == <<"b", ".", "d", "o", "c", "x">>
N_txt == <<"d", ".", "t", "x", "t">>
N_csv == <<"e", ".", "c", "s", "v">>

\* An uploaded file: its name and (an identifier of) its bytes.
Files ==
  { [name |-> N_pdf, bytes |-> 1], [name |-> N_docx, bytes |-> 2],
    [name |-> N_txt, bytes |-> 3], [name |-> N_csv, bytes |-> 4] }

RECURSIVE SeqsUpTo(_, _)
SeqsUpTo(S, n) ==
  IF n = 0 THEN {<<>>}
  ELSE LET shorter == SeqsUpTo(S, n - 1)
       IN shorter \cup {Append(s, x) : s \in shorter, x \in S}

NoDup(s) == \A i, j \in 1..Len(s) : i # j => s[i] # s[j]

\* What the uploader can hold: up to MaxFiles distinct files, in upload order.
Batches == {b \in SeqsUpTo(Files, MaxFiles) : NoDup(b)}

Tokens == {"", "hf_tok"}          \* what the credential text_input can return
Questions == {"", "q1", "q2"}     \* what the form's text_input can return
Answers == {"a1", "a2"}           \* result["answer"] of a successful chain call
Raise == "<raise>"                \* the chain call raising instead of returning
None == "<None>"                  \* Python's None

VARIABLES
  session_state,   \* st.session_state: key -> value, kept across reruns
  token_input,     \* value of the credential text_input widget
  uploaded_files,  \* value of the sidebar file_uploader widget
  submit_button,   \* form_submit_button: TRUE only in the run the click triggers
  user_input,      \* the form's text_input as returned in this run
  disk,            \* paths of the temporary files that exist on disk
  pc,              \* position of the script: "start", "ingest", "build", "chat", "idle"
  idx,             \* loop position of `for file in uploaded_files`
  text,            \* the run's local list `text`
  vector_store,    \* the run's local `vector_store` (None when not built)
  runs,            \* number of script runs started so far
  outcome,         \* how the latest run of main() ended
  promptShown,     \* the credential text_input was rendered in the latest run
  uploaderShown,   \* the file_uploader was rendered in the latest run
  formShown,       \* the question form was rendered in the latest run
  runTemps,        \* temporary files created by the latest run
  built,           \* the latest run built an index and a chain
  asked,           \* the latest run invoked the chain
  lastCall,        \* the argument of the latest chain invocation
  loadRaised,      \* a loader's load() raised in the latest run
  chainRaised,     \* the chain invocation raised in the latest run
  snap,            \* session_state as it was when the latest run passed its gate
  turns,           \* the (question, answer) pairs of the successful turns, in order
  batchBuilds,     \* index builds done since the uploader's content last changed
  everReady        \* some run of the session rendered the question form

vars ==
  << session_state, token_input, uploaded_files, submit_button, user_input, disk,
     pc, idx, text, vector_store, runs, outcome, promptShown, uploaderShown,
     formShown, runTemps, built, asked, lastCall, loadRaised, chainRaised, snap,
     turns, batchBuilds, everReady >>

\* ------------------------------------------------------------- pure helpers
Keys == {"history", "generated", "past", "hf_api_key"}

Defaults ==
  [history |-> <<>>, generated |-> <<"Hello!">>, past |-> <<"Hey!">>,
   hf_api_key |-> None]

\* A variant that assigns history on every run instead of only when absent.
initialize_session_state_reset(ss) ==
  [k \in Keys |-> IF k \in DOMAIN ss /\ k # "history" THEN ss[k] ELSE Defaults[k]]

\* initialize_session_state: each key is set only when it is absent.
initialize_session_state(ss) ==
  [k \in Keys |-> IF k \in DOMAIN ss THEN ss[k] ELSE Defaults[k]]

\* A variant that tests `is None` instead of falsiness.
NeedsCredential_none_only(key) == key = None

\* `not st.session_state['hf_api_key']`: None and "" are falsy.
NeedsCredential(key) == key = None \/ key = ""

LastIndexOf(p, c) ==
  LET hits == {i \in 1..Len(p) : p[i] = c}
  IN IF hits = {} THEN 0 ELSE CHOOSE i \in hits : \A j \in hits : j <= i

\* os.path.splitext(p)[1]: from the last dot on, unless only dots precede it
\* in the last path component.
splitext(p) ==
  LET sep == LastIndexOf(p, "/")
      dot == LastIndexOf(p, ".")
  IN IF dot > sep /\ (\E i \in (sep + 1)..(dot - 1) : p[i] # ".")
     THEN SubSeq(p, dot, Len(p))
     ELSE <<>>

\* A variant whose chain ends in `else: loader = TextLoader(...)`.
SelectLoader_default_text(ext) ==
  IF ext = <<".", "p", "d", "f">> THEN "PyPDFLoader"
  ELSE IF ext = <<".", "d", "o", "c", "x">> \/ ext = <<".", "d", "o", "c">>
       THEN "Docx2txtLoader"
  ELSE "TextLoader"

\* The if/elif chain that picks the loader by extension (case-sensitive).
SelectLoader(ext) ==
  IF ext = <<".", "p", "d", "f">> THEN "PyPDFLoader"
  ELSE IF ext = <<".", "d", "o", "c", "x">> \/ ext = <<".", "d", "o", "c">>
       THEN "Docx2txtLoader"
  ELSE IF ext = <<".", "t", "x", "t">> THEN "TextLoader"
  ELSE None

\* loader.load(): one Document per page for a PDF (two pages here), one
\* Document for a Word or text file.
Load(loader, path, file) ==
  IF loader = "PyPDFLoader"
  THEN << [page_content |-> <<file.bytes, 0>>, source |-> path],
          [page_content |-> <<file.bytes, 1>>, source |-> path] >>
  ELSE << [page_content |-> <<file.bytes, 0>>, source |-> path] >>

\* tempfile.NamedTemporaryFile(delete=False): a path that is not in use.
NewTempPath(d) == CHOOSE n \in 1..(Cardinality(d) + 1) : n \notin d


\* A variant that appends the turn before the chain call has returned.
conversation_chat_append_first(query, result, history) ==
  [ call |-> [question |-> query, chat_history |-> history],
    raised |-> result = Raise,
    history |-> Append(history, <<query, result>>),
    answer |-> result ]

\* A variant that inserts the turn at the front of history.
conversation_chat_prepend(query, result, history) ==
  [ call |-> [question |-> query, chat_history |-> history],
    raised |-> result = Raise,
    history |-> IF result = Raise THEN history ELSE <<(<<query, result>>)>> \o history,
    answer |-> result ]

\* conversation_chat(query, chain, history): `result` is what the chain call
\* does, an answer or Raise.  The pair is appended only after the call returned.
conversation_chat(query, result, history) ==
  [ call |-> [question |-> query, chat_history |-> history],
    raised |-> result = Raise,
    history |-> IF result = Raise THEN history ELSE Append(history, <<query, result>>),
    answer |-> result ]

\* A variant that appends to past before calling conversation_chat.
display_chat_history_past_first(ss, submit, input, result) ==
  IF submit /\ input # ""
  THEN LET r == conversation_chat(input, result, ss.history)
       IN [ asked |-> TRUE, call |-> r.call, raised |-> r.raised,
            ss |-> IF r.raised
                   THEN [ss EXCEPT !.history = r.history, !.past = Append(@, input)]
                   ELSE [ss EXCEPT !.history = r.history,
                                   !.past = Append(@, input),
                                   !.generated = Append(@, r.answer)] ]
  ELSE [asked |-> FALSE, call |-> None, raised |-> FALSE, ss |-> ss]

\* display_chat_history(chain): the turn is handled only on `submit_button and
\* user_input`; past and generated are appended after conversation_chat returned.
display_chat_history(ss, submit, input, result) ==
  IF submit /\ input # ""
  THEN LET r == conversation_chat(input, result, ss.history)
       IN [ asked |-> TRUE, call |-> r.call, raised |-> r.raised,
            ss |-> IF r.raised
                   THEN [ss EXCEPT !.history = r.history]
                   ELSE [ss EXCEPT !.history = r.history,
                                   !.past = Append(@, input),
                                   !.generated = Append(@, r.answer)] ]
  ELSE [asked |-> FALSE, call |-> None, raised |-> FALSE, ss |-> ss]

\* A variant that catches the exception of load() and goes on to the next file.
IngestStep_swallow(file, d, txt, raises) ==
  LET path == NewTempPath(d)
      loader == SelectLoader(splitext(file.name))
  IN IF loader = None \/ raises
     THEN [path |-> path, text |-> txt, disk |-> d \cup {path}, raised |-> FALSE]
     ELSE [path |-> path, text |-> txt \o Load(loader, path, file), disk |-> d,
           raised |-> FALSE]

\* One iteration of `for file in uploaded_files`: the temporary file is written,
\* the loader is picked, and only `if loader:` are the documents loaded and the
\* temporary file removed.  `raises` says whether loader.load() raises.
IngestStep(file, d, txt, raises) ==
  LET path == NewTempPath(d)
      loader == SelectLoader(splitext(file.name))
  IN IF loader = None
     THEN [path |-> path, text |-> txt, disk |-> d \cup {path}, raised |-> FALSE]
     ELSE IF raises
     THEN [path |-> path, text |-> txt, disk |-> d \cup {path}, raised |-> TRUE]
     ELSE [path |-> path, text |-> txt \o Load(loader, path, file), disk |-> d,
           raised |-> FALSE]

\* CharacterTextSplitter.split_documents, HuggingFaceEmbeddings and
\* FAISS.from_documents: the store holds the chunks of the run's `text` (every
\* Document here is shorter than chunk_size, so it is one chunk).
from_documents(txt) == [docs |-> txt]

\* -------------------------------------------------------------------- Init
\* A new session: empty session state, widgets at their defaults, the script
\* about to run for the first time.
Init ==
  /\ session_state = <<>>
  /\ token_input = ""
  /\ uploaded_files = <<>>
  /\ submit_button = FALSE
  /\ user_input = ""
  /\ disk = {}
  /\ pc = "start"
  /\ idx = 1
  /\ text = <<>>
  /\ vector_store = None
  /\ runs = 1
  /\ outcome = "none"
  /\ promptShown = FALSE
  /\ uploaderShown = FALSE
  /\ formShown = FALSE
  /\ runTemps = {}
  /\ built = FALSE
  /\ asked = FALSE
  /\ lastCall = None
  /\ loadRaised = FALSE
  /\ chainRaised = FALSE
  /\ snap = <<>>
  /\ turns = <<>>
  /\ batchBuilds = 0
  /\ everReady = FALSE

\* ------------------------------------------------------- user interactions
\* Every widget interaction re-runs the script from the top.
Trigger ==
  /\ pc = "idle"
  /\ runs < MaxRuns
  /\ runs' = runs + 1
  /\ pc' = "start"
  /\ UNCHANGED << session_state, disk, idx, text, vector_store, outcome, promptShown,
                  uploaderShown, formShown, runTemps, built, asked, lastCall,
                  loadRaised, chainRaised, snap, turns, everReady >>

\* The user re-runs the script without touching a widget.
Rerun ==
  /\ Trigger
  /\ submit_button' = FALSE
  /\ user_input' = ""
  /\ UNCHANGED << token_input, uploaded_files, batchBuilds >>

\* The user types into the credential text_input.
EnterToken ==
  /\ promptShown
  /\ Trigger
  /\ \E tok \in Tokens : token_input' = tok
  /\ submit_button' = FALSE
  /\ user_input' = ""
  /\ UNCHANGED << uploaded_files, batchBuilds >>

\* The user adds or removes files in the sidebar uploader.
ChangeUploads ==
  /\ uploaderShown
  /\ Trigger
  /\ \E b \in Batches : b # uploaded_files /\ uploaded_files' = b
  /\ batchBuilds' = 0
  /\ submit_button' = FALSE
  /\ user_input' = ""
  /\ UNCHANGED token_input

\* The user presses Send in the question form (the text may be empty).
SubmitForm ==
  /\ formShown
  /\ Trigger
  /\ submit_button' = TRUE
  /\ \E q \in Questions : user_input' = q
  /\ UNCHANGED << token_input, uploaded_files, batchBuilds >>

\* ------------------------------------------------------------ a run of main
\* main() up to `if uploaded_files:`: initialize_session_state, the credential
\* gate and the file_uploader.
MainStart ==
  /\ pc = "start"
  /\ LET ss1 == initialize_session_state(session_state)
         prompt == NeedsCredential(ss1.hf_api_key)
         ss2 == IF prompt THEN [ss1 EXCEPT !.hf_api_key = token_input] ELSE ss1
         stop == prompt /\ NeedsCredential(ss2.hf_api_key)
     IN /\ session_state' = ss2
        /\ snap' = ss2
        /\ promptShown' = prompt
        /\ uploaderShown' = ~stop
        /\ outcome' = IF stop THEN "no_credential"
                      ELSE IF uploaded_files = <<>> THEN "no_files" ELSE "running"
        /\ pc' = IF stop \/ uploaded_files = <<>> THEN "idle" ELSE "ingest"
  /\ formShown' = FALSE
  /\ idx' = 1
  /\ text' = <<>>
  /\ vector_store' = None
  /\ runTemps' = {}
  /\ built' = FALSE
  /\ asked' = FALSE
  /\ loadRaised' = FALSE
  /\ chainRaised' = FALSE
  /\ UNCHANGED << token_input, uploaded_files, submit_button, user_input, disk, runs,
                  lastCall, turns, batchBuilds, everReady >>

\* One iteration of the ingestion loop.  An exception of load() leaves main.
IngestFile ==
  /\ pc = "ingest"
  /\ \E raises \in BOOLEAN :
       LET file == uploaded_files[idx]
           r == IngestStep(file, disk, text, raises)
       IN /\ loadRaised' = (raises /\ SelectLoader(splitext(file.name)) # None)
          /\ disk' = r.disk
          /\ text' = r.text
          /\ runTemps' = runTemps \cup {r.path}
          /\ idx' = IF r.raised THEN idx ELSE idx + 1
          /\ pc' = IF r.raised THEN "idle"
                   ELSE IF idx = Len(uploaded_files) THEN "build" ELSE "ingest"
          /\ outcome' = IF r.raised THEN "load_raised" ELSE outcome
  /\ UNCHANGED << session_state, token_input, uploaded_files, submit_button, user_input,
                  vector_store, runs, promptShown, uploaderShown, formShown, built,
                  asked, lastCall, chainRaised, snap, turns, batchBuilds, everReady >>

\* Chunking, embedding, FAISS.from_documents and create_conversational_chain.
\* Any of the library calls may raise, which leaves main.
BuildIndex ==
  /\ pc = "build"
  /\ \E ok \in BOOLEAN :
       IF ok
       THEN /\ vector_store' = from_documents(text)
            /\ built' = TRUE
            /\ batchBuilds' = batchBuilds + 1
            /\ pc' = "chat"
            /\ outcome' = outcome
       ELSE /\ pc' = "idle"
            /\ outcome' = "build_raised"
            /\ UNCHANGED << vector_store, built, batchBuilds >>
  /\ UNCHANGED << session_state, token_input, uploaded_files, submit_button, user_input,
                  disk, idx, text, runs, promptShown, uploaderShown, formShown, runTemps,
                  asked, lastCall, loadRaised, chainRaised, snap, turns, everReady >>

\* display_chat_history(chain): the form, the turn if one was submitted, and
\* the rendering of the transcript.
DisplayChatHistory ==
  /\ pc = "chat"
  /\ \E result \in Answers \cup {Raise} :
       LET r == display_chat_history(session_state, submit_button, user_input, result)
           turn == submit_button /\ user_input # ""
       IN /\ session_state' = r.ss
          /\ asked' = r.asked
          /\ lastCall' = IF r.asked THEN r.call ELSE lastCall
          /\ chainRaised' = (turn /\ result = Raise)
          /\ turns' = IF turn /\ result # Raise
                      THEN Append(turns, <<user_input, result>>) ELSE turns
          /\ outcome' = IF r.raised THEN "chain_raised" ELSE "completed"
  /\ formShown' = TRUE
  /\ everReady' = TRUE
  /\ pc' = "idle"
  /\ UNCHANGED << token_input, uploaded_files, submit_button, user_input, disk, idx,
                  text, vector_store, runs, promptShown, uploaderShown, runTemps, built,
                  loadRaised, snap, batchBuilds >>

Next ==
  \/ Rerun
  \/ EnterToken
  \/ ChangeUploads
  \/ SubmitForm
  \/ MainStart
  \/ IngestFile
  \/ BuildIndex
  \/ DisplayChatHistory

Spec == Init /\ [][Next]_vars


\* ------------------------------------------------------------------ claims
Initialized == "history" \in DOMAIN session_state

history == session_state.history

past == session_state.past

generated == session_state.generated

\* C1: when a run of main has ended, none of the temporary files it created
\* still exists, whether the file was loaded, had no loader, or load() raised.
C1_TempFilesRemoved == pc = "idle" => runTemps \cap disk = {}

\* C2: when the chain call of a submitted question raises, history, past and
\* generated are what they were before the turn.
C2_FailedTurnLeavesTranscript ==
  chainRaised =>
    /\ history = snap.history
    /\ past = snap.past
    /\ generated = snap.generated

\* A turn fails after an earlier turn had succeeded.
C2_Witness == chainRaised /\ pc = "idle" /\ Len(history) = 1

\* C3: after N successful turns, whatever reruns, failed turns and empty
\* submissions came between, history is exactly the N (question, answer)
\* pairs in the order of submission.
C3_HistoryIsSuccessfulTurns == Initialized => history = turns

\* Two successful turns with different questions, then a failed turn.
C3_Witness ==
  /\ pc = "idle"
  /\ Len(turns) = 2
  /\ turns[1][1] # turns[2][1]
  /\ chainRaised

SupportedNames == {N_pdf, N_docx, N_txt}

IsFirstPage(d) == d.page_content[2] = 0

IsSupported(f) == f.name \in SupportedNames

\* The bytes identifiers of the files the documents of txt come from, in order.
Origins(txt) ==
  LET firsts == SelectSeq(txt, IsFirstPage)
  IN [i \in 1..Len(firsts) |-> firsts[i].page_content[1]]

BytesOf(fs) == [i \in 1..Len(fs) |-> fs[i].bytes]

\* C4: a file whose extension is not .pdf, .docx, .doc or .txt adds nothing to
\* `text` and raises nothing; the supported files gone through so far are in
\* `text`, in upload order.
C4_UnsupportedSkipped ==
  pc # "start" =>
    /\ Origins(text) =
         BytesOf(SelectSeq(SubSeq(uploaded_files, 1, idx - 1), IsSupported))
    /\ loadRaised => IsSupported(uploaded_files[idx])

\* A batch of an unsupported file followed by a supported one is ingested.
C4_Witness ==
  /\ pc = "build"
  /\ Len(uploaded_files) = 2
  /\ uploaded_files[1].name = N_csv
  /\ text # <<>>

\* C5: once a run has rendered the question form, every later run that ends
\* without an exception renders it too.
C5_NeverMovesBack ==
  (pc = "idle" /\ everReady /\ outcome \notin {"load_raised", "build_raised"})
    => formShown

\* C6: for an unchanged content of the uploader that yielded documents, the
\* index is built at most once.
C6_BuiltOncePerBatch == (built /\ text # <<>>) => batchBuilds <= 1

\* C7: a run that finds the credential missing (None or "") ends at the
\* prompt: the uploader and the form are not rendered, nothing is ingested or
\* built, the chain is not invoked, and the prompt is rendered again.
C7_NoCredentialNoProgress ==
  (Initialized /\ pc # "start" /\ session_state.hf_api_key \in {None, ""}) =>
    /\ pc = "idle"
    /\ outcome = "no_credential"
    /\ promptShown
    /\ ~uploaderShown
    /\ ~formShown
    /\ runTemps = {}
    /\ text = <<>>
    /\ ~built
    /\ ~asked

\* The prompt is shown again on a rerun that still has no credential.
C7_Witness ==
  /\ pc = "idle"
  /\ runs >= 2
  /\ outcome = "no_credential"
  /\ session_state.hf_api_key = ""

\* C8: once a loader's load() has raised, the run is over: no index, no chain,
\* no form, no chain call, and the session state is what it was.
C8_LoadFailureAbortsBatch ==
  loadRaised =>
    /\ pc \in {"idle", "start"}
    /\ outcome = "load_raised"
    /\ ~built
    /\ vector_store = None
    /\ ~formShown
    /\ ~asked
    /\ session_state = snap

\* The second file of a batch fails to load after a turn had been recorded.
C8_Witness ==
  /\ loadRaised
  /\ pc = "idle"
  /\ idx = 2
  /\ text # <<>>
  /\ Len(history) = 1

IsPrefix(s, t) == Len(s) <= Len(t) /\ SubSeq(t, 1, Len(s)) = s

\* C9: history only grows at its end, and the chat_history handed to the chain
\* for a turn is the pairs of all earlier successful turns of the session.
C9_AppendOnlyReplayed ==
  [][ Initialized =>
        /\ IsPrefix(history, session_state'.history)
        /\ (pc = "chat" /\ asked') =>
             /\ lastCall'.chat_history = turns
             /\ lastCall'.question = user_input ]_vars

\* A turn made in a later rerun is handed the turn of an earlier run.
C9_Witness ==
  /\ asked
  /\ pc = "idle"
  /\ Len(lastCall.chat_history) = 1
  /\ ~chainRaised

\* C10: between user interactions past and generated are one longer than
\* history, and from the second entry on they hold history's pairs.
C10_TranscriptMatchesHistory ==
  (Initialized /\ pc = "idle") =>
    /\ Len(past) = Len(generated)
    /\ Len(past) = Len(history) + 1
    /\ \A i \in 1..Len(history) : <<past[i + 1], generated[i + 1]>> = history[i]

\* An empty submission after two recorded turns.
C10_Witness ==
  /\ pc = "idle"
  /\ Len(history) = 2
  /\ submit_button
  /\ ~asked
  /\ outcome = "completed"

====
